---- MODULE Spec2Model ----
(***************************************************************************)
(* The websocket transport of the faye client (package websocket): the     *)
(* connection object, its lifecycle calls, the read-dispatch worker and    *)
(* the subscription mailboxes.  Every caller is a process that runs one    *)
(* call at a time; every `go w.readWorker()` starts a worker process.  A   *)
(* Go panic stops the whole program.                                       *)
(***************************************************************************)
EXTENDS Integers, Sequences, FiniteSets, TLC

VARIABLES
    conn,               \* w.conn: "nil", "open" or "broken" (its reads and writes fail)
    clientID,           \* w.clientID
    msgID,              \* *w.msgID, the counter behind nextMsgID
    advice,             \* w.advice: the advice stored last, Nil if none
    stopClosed,         \* w.stopCh has been closed
    subs,               \* w.subs: channel name -> mailbox
    onPublishResponse,  \* w.onPublishResponse: NilMap or channel name -> callback
    mboxes,             \* the mailboxes made by Subscribe: [channel, closed]
    wire,               \* the frame written to the socket last, NoMsg before the first
    sock,               \* the frame the server has sent and nobody has read yet, or NoMsg
    nSent,              \* how many frames the server has sent to the read worker
    rw,                 \* the readWorker goroutines: [pc, msg, mb]
    pc,                 \* each caller's position
    local,              \* each caller's locals: [m, mb, seen, hs]
    ret,                \* what the call a caller has just finished returned: [op, err, val]
    panicked,           \* the panic that stopped the program, "" while it runs
    published,          \* the channels Publish has sent to
    arrived,            \* per mailbox: the error-free deliveries routed to it
    handled,            \* per mailbox: the onMessage invocations
    pubCalls,           \* the publish-response callback invocations
    returnedIds,        \* the ids Publish has returned
    hsOK,               \* client id of the last handshake answered with an id and no error
    sentAfter           \* hsOK as it was when the call that wrote wire built the frame

vars == <<conn, clientID, msgID, advice, stopClosed, subs, onPublishResponse, mboxes,
          wire, sock, nSent, rw, pc, local, ret, panicked, published,
          arrived, handled, pubCalls, returnedIds, hsOK, sentAfter>>

\* ---------------------------------------------------------------- bounds
MaxId == 3
MaxFrames == 2

\* -------------------------------------------------------- configuration
Callers == {"c1", "c2"}
Main == "c1"
WorkerOrder == <<"w1", "w2">>
Workers == {WorkerOrder[i] : i \in DOMAIN WorkerOrder}
Channels == {"/a", "/b"}
PublishChannels == {"/b"}
\* The channel each caller subscribes to: one Subscribe caller per channel.
OwnChannel == [p \in Callers |-> IF p = Main THEN "/a" ELSE "/b"]
OutExt == <<"out1", "out2">>
InExt == <<"in1", "in2">>

\* ------------------------------------------------------------- protocol
MetaHandshake == "/meta/handshake"
MetaConnect == "/meta/connect"
MetaDisconnect == "/meta/disconnect"
MetaSubscribe == "/meta/subscribe"
MetaUnsubscribe == "/meta/unsubscribe"
MetaChannels == {MetaHandshake, MetaConnect, MetaDisconnect, MetaSubscribe, MetaUnsubscribe}

Nil == "nil"
NilMap == "nilmap"
NoErr == "noerr"

\* message.Message: the fields the transport reads or writes; ext is the
\* trace of the extensions that have mutated the frame.
Message(channel, id, cid, subscription, successful, error, data, adv) ==
    [channel |-> channel, id |-> id, clientId |-> cid, subscription |-> subscription,
     successful |-> successful, error |-> error, data |-> data, advice |-> adv,
     ext |-> <<>>]

NoMsg == Message("", "", "", "", FALSE, "", Nil, Nil)

\* m.GetError(): nil unless the frame carries an error string.
GetError(m) == IF m.error = "" THEN NoErr ELSE m.error

IsMetaMessage(m) == m.channel \in MetaChannels

\* A frame is an event delivery iff its channel has an active mailbox.
IsEventDelivery(m, registry) == ~IsMetaMessage(m) /\ m.channel \in DOMAIN registry

\* Otherwise it is a publish acknowledgment iff its channel was published to.
IsEventPublish(m, registry, pubs) ==
    ~IsMetaMessage(m) /\ ~IsEventDelivery(m, registry) /\ m.channel \in pubs

\* strconv.Itoa on a non-negative int: its decimal digits.
RECURSIVE Itoa(_)
Itoa(n) == IF n < 10 THEN <<n>> ELSE Itoa(n \div 10) \o <<n % 10>>

\* strconv.Atoi, the inverse reading of a digit string.
RECURSIVE Atoi(_)
Atoi(s) == IF Len(s) = 0 THEN 0 ELSE 10 * Atoi(SubSeq(s, 1, Len(s) - 1)) + s[Len(s)]

\* The counter read but not advanced (a load in place of the add).
AddUint64_Load(c) == c

\* atomic.AddUint64(w.msgID, 1): Init starts the counter at 0 and a run makes
\* at most MaxId calls, so the 64-bit wrap is out of reach and int(...) keeps
\* the value.
AddUint64(c) == c + 1

\* nextMsgID: the new counter value, formatted.
nextMsgID(c) == Itoa(AddUint64(c))

RECURSIVE applyExtensions(_, _, _)
applyExtensions(exts, i, m) ==
    IF i > Len(exts) THEN m
    ELSE applyExtensions(exts, i + 1, [m EXCEPT !.ext = Append(@, exts[i])])

applyOutExtensions(m) == applyExtensions(OutExt, 1, m)

applyInExtensions(m) == applyExtensions(InExt, 1, m)

\* The send primitive without the extension pass.
sendMessage_NoExt(m) == m

\* sendMessage: the frame as serialized, after the outbound extensions.
sendMessage(m) == applyOutExtensions(m)

\* ------------------------------------------------------ the server's frames
Nack(s, e) == Message(MetaSubscribe, "", "", s, FALSE, e, Nil, Nil)
ConnectAck == Message(MetaConnect, "", "", "", TRUE, "", Nil, "retry")
Event(c, e) == Message(c, "", "", "", FALSE, e, "data", Nil)
PublishAck(c) == Message(c, "", "", "", TRUE, "", Nil, Nil)
HandshakeResp(cid, e) == Message(MetaHandshake, "", cid, "", e = "", e, Nil, Nil)

\* The frames the server may send: subscribe responses that fail (with and
\* without an error string), a connect response carrying advice, events with
\* a payload (one carrying an error), a publish acknowledgment, and handshake
\* responses.
ServerFrames ==
    {Nack("/a", e) : e \in {"", "denied"}}
    \cup {ConnectAck}
    \cup {Event(c, "") : c \in Channels}
    \cup {Event("/a", "boom"), PublishAck("/b")}
    \cup {HandshakeResp(cid, "") : cid \in {"", "id1"}}
    \cup {HandshakeResp("id1", "refused")}

\* ---------------------------------------------------------------- state
NoLocal == [m |-> NoMsg, mb |-> 0, seen |-> {}, hs |-> ""]
NoRet == [op |-> "", err |-> NoErr, val |-> Nil]
RwOff == [pc |-> "off", msg |-> NoMsg, mb |-> 0]

\* The zero Websocket value: Init has not run.
Init ==
    /\ conn = "nil"
    /\ clientID = ""
    /\ msgID = 0
    /\ advice = Nil
    /\ stopClosed = FALSE
    /\ subs = <<>>
    /\ onPublishResponse = NilMap
    /\ mboxes = <<>>
    /\ wire = NoMsg
    /\ sock = NoMsg
    /\ nSent = 0
    /\ rw = [w \in Workers |-> RwOff]
    /\ pc = [p \in Callers |-> "idle"]
    /\ local = [p \in Callers |-> NoLocal]
    /\ ret = [p \in Callers |-> NoRet]
    /\ panicked = ""
    /\ published = {}
    /\ arrived = <<>>
    /\ handled = <<>>
    /\ pubCalls = <<>>
    /\ returnedIds = {}
    /\ hsOK = ""
    /\ sentAfter = ""

Running == panicked = ""
Ready(p) == Running /\ conn # "nil" /\ pc[p] = "idle"

\* The calls of a connected client: handshake -> connect -> the rest.
Connected(p) == Ready(p) /\ \E w \in DOMAIN rw : rw[w].pc # "off"

Return(p, op, err, val) ==
    /\ pc' = [pc EXCEPT ![p] = "idle"]
    /\ local' = [local EXCEPT ![p] = NoLocal]
    /\ ret' = [ret EXCEPT ![p] = [op |-> op, err |-> err, val |-> val]]

\* conn.WriteJSON: the frame reaches the wire unless the socket is broken.
WriteJSON(f, hs) ==
    /\ wire' = IF conn = "open" THEN f ELSE wire
    /\ sentAfter' = IF conn = "open" THEN hs ELSE sentAfter
WriteErr == IF conn = "open" THEN NoErr ELSE "write failed"

\* A registry read that finds nothing.
Lookup_Missing(registry, key) == 0

\* w.subs[key], 0 standing for the nil channel of a missing key.
Lookup(registry, key) == IF key \in DOMAIN registry THEN registry[key] ELSE 0

\* w.subs[key] = mb
Store(registry, key, mb) ==
    [k \in DOMAIN registry \cup {key} |-> IF k = key THEN mb ELSE registry[k]]

\* delete(w.subs, key)
Delete(registry, key) == [k \in DOMAIN registry \ {key} |-> registry[k]]

\* ------------------------------------------------------ the environment
Started == \E w \in Workers : rw[w].pc # "off"

\* A subscribe request for subscription S has reached the wire on this
\* connection: its Subscribe call is past the send, or has made its mailbox.
Requested(S) ==
    \/ \E p \in Callers :
        /\ pc[p] \in {"SubscribeRegister", "SubscribeRecv"}
        /\ local[p].m.subscription = S
    \/ \E mb \in DOMAIN mboxes : mboxes[mb].channel = S

\* The server sends a frame once the one before it was read: a handshake
\* response to a caller that waits for one, any other frame once Connect has
\* started the read worker, a subscribe response only for a subscription that
\* was requested.  A payload is numbered by its place in the stream.
ServerSend(f) ==
    /\ Running /\ conn = "open" /\ sock = NoMsg
    /\ f.channel = MetaSubscribe => Requested(f.subscription)
    /\ IF f.channel = MetaHandshake
       THEN /\ ~Started /\ \E p \in Callers : pc[p] = "HandshakeRead"
            /\ sock' = f
            /\ UNCHANGED nSent
       ELSE /\ Started /\ nSent < MaxFrames
            /\ nSent' = nSent + 1
            /\ sock' = [f EXCEPT !.data = IF @ = Nil THEN Nil ELSE nSent + 1]
    /\ UNCHANGED <<conn, clientID, msgID, advice, stopClosed, subs, onPublishResponse,
                   mboxes, wire, sentAfter, rw, pc, local, ret, panicked,
                   published, arrived, handled, pubCalls, returnedIds, hsOK>>

\* ------------------------------------------------------------ lifecycle
\* Init: the counter, the subscription registry and the stop channel are made,
\* then the socket is dialled.  w.onPublishResponse is not assigned.
WsInit(p) ==
    /\ Running /\ p = Main /\ pc[p] = "idle" /\ conn = "nil"
    /\ msgID' = 0
    /\ subs' = <<>>
    /\ stopClosed' = FALSE
    /\ \E dialed \in BOOLEAN :
        /\ conn' = IF dialed THEN "open" ELSE "nil"
        /\ Return(p, "Init", IF dialed THEN NoErr ELSE "dial failed", Nil)
    /\ UNCHANGED <<clientID, advice, onPublishResponse, mboxes, wire, sentAfter, sock,
                   nSent, rw, panicked, published, arrived, handled,
                   pubCalls, returnedIds, hsOK>>

\* What a finished Handshake call is remembered by: the response it read and
\* the stored client id before and after the call.
HandshakeVal(resp, before, after) == [resp |-> resp, before |-> before, after |-> after]

\* Handshake, up to the blocking read of the response.  It reads the socket
\* itself, so it is called while no read worker runs.
Handshake(p) ==
    /\ Ready(p) /\ p = Main /\ ~Started
    /\ LET m == Message(MetaHandshake, "", "", "", FALSE, "", Nil, Nil)
       IN  WriteJSON(sendMessage(m), hsOK)
    /\ IF WriteErr # NoErr
       THEN Return(p, "Handshake", WriteErr, HandshakeVal(NoMsg, clientID, clientID))
       ELSE /\ pc' = [pc EXCEPT ![p] = "HandshakeRead"]
            /\ ret' = [ret EXCEPT ![p] = NoRet]
            /\ UNCHANGED local
    /\ UNCHANGED <<conn, clientID, msgID, advice, stopClosed, subs, onPublishResponse,
                   mboxes, sock, nSent, rw, panicked, published, arrived, handled,
                   pubCalls, returnedIds, hsOK>>

\* What Handshake returns for the response resp: `return err` hands back the
\* error of the read that has just succeeded.
HandshakeResult(resp) == NoErr

\* The client id Handshake leaves stored.
HandshakeStore(resp, old) == IF GetError(resp) # NoErr THEN old ELSE resp.clientId

\* Handshake's direct read fails (the socket broke; its later reads and
\* writes fail too).
HandshakeReadFail(p) ==
    /\ Running /\ pc[p] = "HandshakeRead"
    /\ conn' = "broken"
    /\ sock' = NoMsg
    /\ Return(p, "Handshake", "read failed", HandshakeVal(NoMsg, clientID, clientID))
    /\ UNCHANGED <<clientID, msgID, advice, stopClosed, subs, onPublishResponse, mboxes,
                   wire, sentAfter, nSent, rw, panicked, published,
                   arrived, handled, pubCalls, returnedIds, hsOK>>

\* Handshake, from the direct read of the response to its return.
HandshakeRead(p) ==
    /\ Running /\ pc[p] = "HandshakeRead"
    /\ conn = "open" /\ sock # NoMsg
    /\ sock' = NoMsg
    /\ LET resp == applyInExtensions(sock)
       IN  /\ clientID' = HandshakeStore(resp, clientID)
           /\ hsOK' = IF resp.error = "" /\ resp.clientId # ""
                      THEN resp.clientId ELSE hsOK
           /\ Return(p, "Handshake", HandshakeResult(resp),
                     HandshakeVal(resp, clientID, HandshakeStore(resp, clientID)))
    /\ UNCHANGED <<conn, msgID, advice, stopClosed, subs, onPublishResponse, mboxes,
                   wire, sentAfter, nSent, rw, panicked, published,
                   arrived, handled, pubCalls, returnedIds>>

\* Connect: the frame is built, a read worker is started (`go w.readWorker()`,
\* one more goroutine per call), the frame is sent.
Connect(p) ==
    /\ Ready(p) /\ p = Main /\ msgID < MaxId
    /\ \E i \in DOMAIN WorkerOrder :
        /\ rw[WorkerOrder[i]].pc = "off"
        /\ \A j \in 1..(i - 1) : rw[WorkerOrder[j]].pc # "off"
        /\ rw' = [rw EXCEPT ![WorkerOrder[i]].pc = "select"]
    /\ msgID' = AddUint64(msgID)
    /\ local' = [local EXCEPT ![p].m =
            Message(MetaConnect, nextMsgID(msgID), clientID, "", FALSE, "", Nil, Nil),
                              ![p].hs = hsOK]
    /\ pc' = [pc EXCEPT ![p] = "ConnectSend"]
    /\ ret' = [ret EXCEPT ![p] = NoRet]
    /\ UNCHANGED <<conn, clientID, advice, stopClosed, subs, onPublishResponse, mboxes,
                   wire, sentAfter, sock, nSent, panicked, published,
                   arrived, handled, pubCalls, returnedIds, hsOK>>

ConnectSend(p) ==
    /\ Running /\ pc[p] = "ConnectSend"
    /\ WriteJSON(sendMessage(local[p].m), local[p].hs)
    /\ Return(p, "Connect", WriteErr, Nil)
    /\ UNCHANGED <<conn, clientID, msgID, advice, stopClosed, subs, onPublishResponse,
                   mboxes, sock, nSent, rw, panicked, published, arrived,
                   handled, pubCalls, returnedIds, hsOK>>

\* Disconnect, up to the send on the stop channel.
Disconnect(p) ==
    /\ Connected(p) /\ p = Main /\ msgID < MaxId
    /\ msgID' = AddUint64(msgID)
    /\ local' = [local EXCEPT ![p].m =
            Message(MetaDisconnect, nextMsgID(msgID), clientID, "", FALSE, "", Nil, Nil),
                              ![p].hs = hsOK]
    /\ pc' = [pc EXCEPT ![p] = "DisconnectStop"]
    /\ ret' = [ret EXCEPT ![p] = NoRet]
    /\ UNCHANGED <<conn, clientID, advice, stopClosed, subs, onPublishResponse, mboxes,
                   wire, sentAfter, sock, nSent, rw, panicked,
                   published, arrived, handled, pubCalls, returnedIds, hsOK>>

\* `w.stopCh <- nil` on a channel another Disconnect has closed.
DisconnectStopClosed(p) ==
    /\ Running /\ pc[p] = "DisconnectStop" /\ stopClosed
    /\ panicked' = "send on closed channel"
    /\ UNCHANGED <<conn, clientID, msgID, advice, stopClosed, subs, onPublishResponse,
                   mboxes, wire, sentAfter, sock, nSent, rw, pc, local, ret,
                   published, arrived, handled, pubCalls, returnedIds, hsOK>>

\* Disconnect, after the stop signal was accepted: close(w.stopCh), then the
\* disconnect frame is sent.
DisconnectClose(p) ==
    /\ Running /\ pc[p] = "DisconnectClose"
    /\ IF stopClosed
       THEN /\ panicked' = "close of closed channel"
            /\ UNCHANGED <<stopClosed, wire, sentAfter, pc, local, ret>>
       ELSE /\ stopClosed' = TRUE
            /\ WriteJSON(sendMessage(local[p].m), local[p].hs)
            /\ Return(p, "Disconnect", WriteErr, Nil)
            /\ UNCHANGED panicked
    /\ UNCHANGED <<conn, clientID, msgID, advice, subs, onPublishResponse, mboxes, sock,
                   nSent, rw, published, arrived, handled, pubCalls,
                   returnedIds, hsOK>>

\* --------------------------------------------------------- subscriptions
\* Subscribe: the subscribe frame is built.
Subscribe(p, ch) ==
    /\ Connected(p) /\ msgID < MaxId
    /\ ch = OwnChannel[p]
    /\ msgID' = AddUint64(msgID)
    /\ local' = [local EXCEPT ![p].m =
            Message(MetaSubscribe, nextMsgID(msgID), clientID, ch, FALSE, "", Nil, Nil),
                              ![p].hs = hsOK]
    /\ pc' = [pc EXCEPT ![p] = "SubscribeSend"]
    /\ ret' = [ret EXCEPT ![p] = NoRet]
    /\ UNCHANGED <<conn, clientID, advice, stopClosed, subs, onPublishResponse, mboxes,
                   wire, sentAfter, sock, nSent, rw, panicked,
                   published, arrived, handled, pubCalls, returnedIds, hsOK>>

SubscribeSend(p) ==
    /\ Running /\ pc[p] = "SubscribeSend"
    /\ WriteJSON(sendMessage(local[p].m), local[p].hs)
    /\ IF WriteErr # NoErr
       THEN Return(p, "Subscribe", WriteErr, 0)
       ELSE /\ pc' = [pc EXCEPT ![p] = "SubscribeRegister"]
            /\ UNCHANGED <<local, ret>>
    /\ UNCHANGED <<conn, clientID, msgID, advice, stopClosed, subs, onPublishResponse,
                   mboxes, sock, nSent, rw, panicked, published, arrived,
                   handled, pubCalls, returnedIds, hsOK>>

\* inMsgCh := make(chan *message.Message, 0); w.subs[subscription] = inMsgCh
SubscribeRegister(p) ==
    /\ Running /\ pc[p] = "SubscribeRegister"
    /\ LET mb == Len(mboxes) + 1
       IN  /\ mboxes' = Append(mboxes, [channel |-> local[p].m.subscription,
                                        closed |-> FALSE])
           /\ subs' = Store(subs, local[p].m.subscription, mb)
           /\ local' = [local EXCEPT ![p].mb = mb]
    /\ arrived' = Append(arrived, <<>>)
    /\ handled' = Append(handled, <<>>)
    /\ pc' = [pc EXCEPT ![p] = "SubscribeRecv"]
    /\ UNCHANGED <<conn, clientID, msgID, advice, stopClosed, onPublishResponse, wire,
                   sentAfter, sock, nSent, rw, ret, panicked, published,
                   pubCalls, returnedIds, hsOK>>

\* `range inMsgCh` finds the mailbox closed and empty: Subscribe returns nil.
SubscribeClosed(p) ==
    /\ Running /\ pc[p] = "SubscribeRecv"
    /\ mboxes[local[p].mb].closed
    /\ Return(p, "Subscribe", NoErr, local[p].mb)
    /\ UNCHANGED <<conn, clientID, msgID, advice, stopClosed, subs, onPublishResponse,
                   mboxes, wire, sentAfter, sock, nSent, rw, panicked,
                   published, arrived, handled, pubCalls, returnedIds, hsOK>>

\* Unsubscribe, called for a channel the client has subscribed to: the
\* unsubscribe frame is built.
Unsubscribe(p, ch) ==
    /\ Connected(p) /\ p = Main /\ msgID < MaxId
    /\ ch \in DOMAIN subs
    /\ msgID' = AddUint64(msgID)
    /\ local' = [local EXCEPT ![p].m =
            Message(MetaUnsubscribe, nextMsgID(msgID), clientID, ch, FALSE, "", Nil, Nil),
                              ![p].hs = hsOK]
    /\ pc' = [pc EXCEPT ![p] = "UnsubscribeSend"]
    /\ ret' = [ret EXCEPT ![p] = NoRet]
    /\ UNCHANGED <<conn, clientID, advice, stopClosed, subs, onPublishResponse, mboxes,
                   wire, sentAfter, sock, nSent, rw, panicked,
                   published, arrived, handled, pubCalls, returnedIds, hsOK>>

\* Unsubscribe with a local cleanup: the channel's entry is removed from the
\* registry as the frame is sent.
UnsubscribeSend_Cleanup(p) ==
    /\ Running /\ pc[p] = "UnsubscribeSend"
    /\ WriteJSON(sendMessage(local[p].m), local[p].hs)
    /\ Return(p, "Unsubscribe", WriteErr, Nil)
    /\ subs' = Delete(subs, local[p].m.subscription)
    /\ UNCHANGED <<conn, clientID, msgID, advice, stopClosed, onPublishResponse,
                   mboxes, sock, nSent, rw, panicked, published, arrived,
                   handled, pubCalls, returnedIds, hsOK>>

UnsubscribeSend(p) ==
    /\ Running /\ pc[p] = "UnsubscribeSend"
    /\ WriteJSON(sendMessage(local[p].m), local[p].hs)
    /\ Return(p, "Unsubscribe", WriteErr, Nil)
    /\ UNCHANGED <<conn, clientID, msgID, advice, stopClosed, subs, onPublishResponse,
                   mboxes, sock, nSent, rw, panicked, published, arrived,
                   handled, pubCalls, returnedIds, hsOK>>

\* ---------------------------------------------------------------- publish
\* Publish: the id is taken and the frame is built.
Publish(p, ch) ==
    /\ Connected(p) /\ msgID < MaxId
    /\ msgID' = AddUint64(msgID)
    /\ local' = [local EXCEPT ![p].m =
            Message(ch, nextMsgID(msgID), clientID, "", FALSE, "", "hello", Nil),
                              ![p].hs = hsOK,
                              ![p].seen = returnedIds]
    /\ pc' = [pc EXCEPT ![p] = "PublishSend"]
    /\ ret' = [ret EXCEPT ![p] = NoRet]
    /\ UNCHANGED <<conn, clientID, advice, stopClosed, subs, onPublishResponse, mboxes,
                   wire, sentAfter, sock, nSent, rw, panicked,
                   published, arrived, handled, pubCalls, returnedIds, hsOK>>

PublishSend(p) ==
    /\ Running /\ pc[p] = "PublishSend"
    /\ WriteJSON(sendMessage(local[p].m), local[p].hs)
    /\ IF WriteErr # NoErr
       THEN /\ Return(p, "Publish", WriteErr, <<>>)
            /\ UNCHANGED <<published, returnedIds>>
       ELSE /\ Return(p, "Publish", NoErr, local[p].m.id)
            /\ published' = published \cup {local[p].m.channel}
            /\ returnedIds' = returnedIds \cup {local[p].m.id}
    /\ UNCHANGED <<conn, clientID, msgID, advice, stopClosed, subs, onPublishResponse,
                   mboxes, sock, nSent, rw, panicked, arrived, handled,
                   pubCalls, hsOK>>

\* OnPublishResponse: an assignment to an entry of w.onPublishResponse, which
\* panics on the nil map.
OnPublishResponse(p, ch) ==
    /\ Ready(p) /\ p = Main
    /\ IF onPublishResponse = NilMap
       THEN /\ panicked' = "assignment to entry in nil map"
            /\ UNCHANGED <<onPublishResponse, pc, local, ret>>
       ELSE /\ onPublishResponse' = Store(onPublishResponse, ch, p)
            /\ Return(p, "OnPublishResponse", NoErr, Nil)
            /\ UNCHANGED panicked
    /\ UNCHANGED <<conn, clientID, msgID, advice, stopClosed, subs, mboxes, wire,
                   sentAfter, sock, nSent, rw, published, arrived, handled,
                   pubCalls, returnedIds, hsOK>>

\* ------------------------------------------------------------ readWorker
\* The non-blocking select on the stop channel at the top of the loop: a closed
\* channel or a Disconnect waiting in its send ends the worker, otherwise the
\* worker goes on to read the socket.
RwSelect(w) ==
    /\ Running /\ rw[w].pc = "select"
    /\ IF stopClosed
       THEN /\ rw' = [rw EXCEPT ![w].pc = "done"]
            /\ UNCHANGED pc
       ELSE IF \E p \in Callers : pc[p] = "DisconnectStop"
       THEN \E p \in Callers :
                /\ pc[p] = "DisconnectStop"
                /\ pc' = [pc EXCEPT ![p] = "DisconnectClose"]
                /\ rw' = [rw EXCEPT ![w].pc = "done"]
       ELSE /\ rw' = [rw EXCEPT ![w].pc = "read"]
            /\ UNCHANGED pc
    /\ UNCHANGED <<conn, clientID, msgID, advice, stopClosed, subs, onPublishResponse,
                   mboxes, wire, sentAfter, sock, nSent, local, ret,
                   panicked, published, arrived, handled, pubCalls, returnedIds, hsOK>>

\* handleAdvise: the frame's advice replaces the stored one.
handleAdvise(msg, old) == IF msg.advice # Nil THEN msg.advice ELSE old

\* The failed subscribe response as it is pushed: the error is rewritten when
\* the frame already carries one (the text names msg.subscription, which stays
\* in the frame's subscription field).
InjectError(msg) ==
    IF GetError(msg) # NoErr
    THEN [msg EXCEPT !.error = "susbscription failed"]
    ELSE msg

\* The key the worker deletes from the registry after the failed response.
NackDeleteKey(msg) == msg.channel

IsNack(msg) == msg.channel = MetaSubscribe /\ ~msg.successful

\* The delivery frame as it is pushed into the mailbox.
DeliveryFrame(msg) == applyInExtensions(msg)

\* ReadJSON fails (the socket broke; its later reads and writes fail too): the
\* worker returns the error.
RwReadFail(w) ==
    /\ Running /\ rw[w].pc = "read"
    /\ conn' = "broken"
    /\ sock' = NoMsg
    /\ rw' = [rw EXCEPT ![w].pc = "done"]
    /\ UNCHANGED <<clientID, msgID, advice, stopClosed, subs, onPublishResponse,
                   mboxes, wire, sentAfter, nSent, pc, local, ret,
                   panicked, published, arrived, handled, pubCalls, returnedIds, hsOK>>

\* One frame is read and dispatched, up to the point where the worker blocks
\* on a mailbox or goes back to the top of the loop.
RwRead(w) ==
    /\ Running /\ rw[w].pc = "read" /\ conn = "open" /\ sock # NoMsg
    /\ sock' = NoMsg
    /\ LET msg == sock
           mb == IF IsNack(msg) THEN Lookup(subs, msg.subscription)
                 ELSE Lookup(subs, msg.channel)
       IN  /\ advice' = handleAdvise(msg, advice)
           /\ IF IsMetaMessage(msg)
              THEN IF IsNack(msg)
                   THEN IF mb = 0
                        THEN /\ panicked' = "BUG: subscription not registered"
                             /\ UNCHANGED <<rw, arrived, pubCalls>>
                        ELSE /\ rw' = [rw EXCEPT ![w] =
                                    [pc |-> "push", msg |-> InjectError(msg), mb |-> mb]]
                             /\ UNCHANGED <<panicked, arrived, pubCalls>>
                   ELSE /\ rw' = [rw EXCEPT ![w].pc = "select"]
                        /\ UNCHANGED <<panicked, arrived, pubCalls>>
              ELSE IF IsEventDelivery(msg, subs)
              THEN /\ IF mb # 0
                      THEN /\ rw' = [rw EXCEPT ![w] =
                                [pc |-> "push", msg |-> DeliveryFrame(msg), mb |-> mb]]
                           /\ arrived' = IF GetError(msg) = NoErr
                                         THEN [arrived EXCEPT ![mb] = Append(@, msg.data)]
                                         ELSE arrived
                      ELSE /\ rw' = [rw EXCEPT ![w].pc = "select"]
                           /\ UNCHANGED arrived
                   /\ UNCHANGED <<panicked, pubCalls>>
              ELSE /\ pubCalls' =
                        IF /\ IsEventPublish(msg, subs, published)
                           /\ onPublishResponse # NilMap
                           /\ Lookup(onPublishResponse, msg.channel) # 0
                        THEN Append(pubCalls, msg.channel)
                        ELSE pubCalls
                   /\ rw' = [rw EXCEPT ![w].pc = "select"]
                   /\ UNCHANGED <<panicked, arrived>>
    /\ UNCHANGED <<conn, clientID, msgID, stopClosed, subs, onPublishResponse, mboxes,
                   wire, sentAfter, nSent, pc, local, ret, published,
                   handled, returnedIds, hsOK>>

\* `subscription <- msg`: the Subscribe call waiting on the mailbox takes the
\* frame and runs the body of its consume loop: it returns the frame's error,
\* or hands the payload to onMessage and waits again.
RwPush(w, p) ==
    /\ Running /\ rw[w].pc = "push" /\ pc[p] = "SubscribeRecv"
    /\ local[p].mb = rw[w].mb
    /\ ~mboxes[rw[w].mb].closed
    /\ LET inMsg == rw[w].msg
       IN  IF GetError(inMsg) # NoErr
           THEN /\ Return(p, "Subscribe", GetError(inMsg), local[p].mb)
                /\ UNCHANGED handled
           ELSE /\ handled' = [handled EXCEPT ![local[p].mb] =
                        Append(@, [data |-> inMsg.data, channel |-> inMsg.channel,
                                   ext |-> inMsg.ext])]
                /\ UNCHANGED <<pc, local, ret>>
    /\ rw' = [rw EXCEPT ![w] = IF IsNack(rw[w].msg)
                               THEN [@ EXCEPT !.pc = "close"]
                               ELSE [pc |-> "select", msg |-> NoMsg, mb |-> 0]]
    /\ UNCHANGED <<conn, clientID, msgID, advice, stopClosed, subs, onPublishResponse,
                   mboxes, wire, sentAfter, sock, nSent, panicked,
                   published, arrived, pubCalls, returnedIds, hsOK>>

\* `subscription <- msg` on a mailbox that has been closed.
RwPushClosed(w) ==
    /\ Running /\ rw[w].pc = "push"
    /\ mboxes[rw[w].mb].closed
    /\ panicked' = "send on closed channel"
    /\ UNCHANGED <<conn, clientID, msgID, advice, stopClosed, subs, onPublishResponse,
                   mboxes, wire, sentAfter, sock, nSent, rw, pc, local, ret,
                   published, arrived, handled, pubCalls, returnedIds, hsOK>>

\* After the failed response was taken: close(subscription), then the delete.
RwClose(w) ==
    /\ Running /\ rw[w].pc = "close"
    /\ IF mboxes[rw[w].mb].closed
       THEN /\ panicked' = "close of closed channel"
            /\ UNCHANGED <<mboxes, subs, rw>>
       ELSE /\ mboxes' = [mboxes EXCEPT ![rw[w].mb].closed = TRUE]
            /\ subs' = Delete(subs, NackDeleteKey(rw[w].msg))
            /\ rw' = [rw EXCEPT ![w] = [pc |-> "select", msg |-> NoMsg, mb |-> 0]]
            /\ UNCHANGED panicked
    /\ UNCHANGED <<conn, clientID, msgID, advice, stopClosed, onPublishResponse, wire,
                   sentAfter, sock, nSent, pc, local, ret, published,
                   arrived, handled, pubCalls, returnedIds, hsOK>>

\* --------------------------------------------------------- specification
Next ==
    \/ \E f \in ServerFrames : ServerSend(f)
    \/ \E p \in Callers :
        \/ WsInit(p)
        \/ Handshake(p)
        \/ HandshakeReadFail(p)
        \/ HandshakeRead(p)
        \/ Connect(p)
        \/ ConnectSend(p)
        \/ Disconnect(p)
        \/ DisconnectStopClosed(p)
        \/ DisconnectClose(p)
        \/ SubscribeSend(p)
        \/ SubscribeRegister(p)
        \/ SubscribeClosed(p)
        \/ UnsubscribeSend(p)
        \/ PublishSend(p)
        \/ \E ch \in Channels :
            \/ Subscribe(p, ch)
            \/ Unsubscribe(p, ch)
            \/ OnPublishResponse(p, ch)
        \/ \E ch \in PublishChannels : Publish(p, ch)
    \/ \E w \in Workers :
        \/ RwSelect(w)
        \/ RwReadFail(w)
        \/ RwRead(w)
        \/ RwPushClosed(w)
        \/ RwClose(w)
        \/ \E p \in Callers : RwPush(w, p)

Spec == Init /\ [][Next]_vars

\* The steps the Go scheduler runs once they are enabled: a call in progress
\* goes on and a started worker goes on.  That the server sends a frame, that
\* a read fails or that the application makes another call is not assumed.
CallStep(p) ==
    \/ HandshakeRead(p)
    \/ ConnectSend(p)
    \/ DisconnectStopClosed(p)
    \/ DisconnectClose(p)
    \/ SubscribeSend(p)
    \/ SubscribeRegister(p)
    \/ SubscribeClosed(p)
    \/ UnsubscribeSend(p)
    \/ PublishSend(p)

WorkerStep(w) ==
    \/ RwSelect(w)
    \/ RwRead(w)
    \/ RwPushClosed(w)
    \/ RwClose(w)
    \/ \E p \in Callers : RwPush(w, p)

FairSpec ==
    /\ Spec
    /\ \A p \in Callers : WF_vars(CallStep(p))
    /\ \A w \in Workers : WF_vars(WorkerStep(w))

\* ================================================================ claims

\* C1: a Subscribe call whose subscribe request is answered with
\* successful=false (with or without an error string) gets exactly one error:
\* the failed response is never handed to the handler, and the call returns a
\* non-nil error.
C1_NackReturnsErrorOnly ==
    /\ \A mb \in DOMAIN handled : \A i \in DOMAIN handled[mb] :
            handled[mb][i].channel # MetaSubscribe
    /\ \A p \in Callers :
            (/\ ret[p].op = "Subscribe"
             /\ ret[p].val # 0
             /\ mboxes[ret[p].val].closed) => ret[p].err # NoErr

\* The consumer of mailbox mb waits on it and no worker holds a frame for it.
Drained(mb) ==
    /\ \E p \in Callers : pc[p] = "SubscribeRecv" /\ local[p].mb = mb
    /\ \A w \in Workers : ~(rw[w].pc = "push" /\ rw[w].mb = mb)

\* C2: for a registered mailbox whose consumer keeps draining, the handler
\* invocations are exactly the error-free delivery frames the read loop
\* received on that channel, in arrival order, and every one of them is a
\* frame of the mailbox's own channel.
C2_DeliveriesHandledInOrder ==
    \A mb \in DOMAIN handled :
        /\ Len(handled[mb]) <= Len(arrived[mb])
        /\ \A i \in DOMAIN handled[mb] :
            /\ i <= Len(arrived[mb]) => handled[mb][i].data = arrived[mb][i]
            /\ handled[mb][i].channel = mboxes[mb].channel
        /\ Drained(mb) => Len(handled[mb]) = Len(arrived[mb])

\* C3: within one connection the ids Publish returns are pairwise distinct,
\* and a Publish that starts after another has returned gets a strictly
\* greater id, whatever calls of other callers interleave on the counter.
C3_PublishIdsDistinctIncreasing ==
    /\ \A p \in Callers : pc[p] = "PublishSend" =>
            /\ local[p].m.id \notin returnedIds
            /\ \A id \in local[p].seen : Atoi(id) < Atoi(local[p].m.id)
    /\ \A p, q \in Callers :
            (p # q /\ pc[p] = "PublishSend" /\ pc[q] = "PublishSend")
                => local[p].m.id # local[q].m.id
    /\ \A p \in Callers :
            (ret[p].op = "Publish" /\ ret[p].err = NoErr) => ret[p].val \in returnedIds

\* A Publish call is in progress that started after another Publish returned,
\* while a second caller's call is in progress too.
C3_Witness ==
    \E p, q \in Callers :
        /\ p # q
        /\ pc[p] = "PublishSend" /\ local[p].seen # {}
        /\ pc[q] # "idle"

\* C4: Handshake returns a non-nil error whenever the response carries an
\* error or no client id, leaving the stored client id unchanged; it returns
\* success and stores the response's client id only otherwise.
C4_HandshakeChecksResponse ==
    \A p \in Callers : ret[p].op = "Handshake" =>
        LET r == ret[p].val
        IN  IF r.resp.error # "" \/ r.resp.clientId = ""
            THEN ret[p].err # NoErr /\ r.after = r.before
            ELSE ret[p].err = NoErr /\ r.after = r.resp.clientId

\* C5: after Init succeeds the subscription registry is empty and
\* OnPublishResponse completes normally (the publish-response registry is
\* usable).
C5_RegistriesUsableAfterInit ==
    /\ (ret[Main].op = "Init" /\ ret[Main].err = NoErr) => DOMAIN subs = {}
    /\ panicked # "assignment to entry in nil map"

\* C6: every frame written to the wire, on any send path, has been through
\* each registered outbound extension exactly once, in registration order.
C6_OutExtensionsOnEveryFrame ==
    wire # NoMsg => wire.ext = OutExt

\* A subscribe frame is on the wire, and it went through the extensions.
C6_Witness ==
    wire.channel = MetaSubscribe /\ wire.ext = OutExt

\* C7: every frame whose payload is handed to a subscription handler has been
\* through each registered inbound extension exactly once, in registration
\* order.
C7_InExtensionsOnHandledFrames ==
    \A mb \in DOMAIN handled : \A i \in DOMAIN handled[mb] :
        handled[mb][i].ext = InExt

\* C8: once Disconnect waits to hand over the stop signal, the read loop
\* eventually accepts it and Disconnect returns (unless the program has
\* stopped on a panic).
C8_DisconnectReturns ==
    \A p \in Callers :
        (pc[p] = "DisconnectStop") ~> (ret[p].op = "Disconnect" \/ panicked # "")

\* C9: a frame built after a handshake succeeded with client id c, by any call
\* other than Handshake, carries clientId = c.
C9_FramesCarryClientId ==
    (wire # NoMsg /\ wire.channel # MetaHandshake /\ sentAfter # "")
        => wire.clientId = sentAfter

\* C10: when the read loop has processed a failed subscribe response for
\* subscription S, the mailbox is closed and the registry has no entry for S.
C10_NackRemovesSubscription ==
    [][\A w \in Workers :
        (rw[w].pc = "close" /\ rw'[w].pc = "select") =>
            /\ mboxes'[rw[w].mb].closed
            /\ rw[w].msg.subscription \notin DOMAIN subs']_vars

\* C11: whenever the read loop takes a failed subscribe response for a
\* subscription that was requested through Subscribe, a mailbox for it is
\* registered already: the step never ends in the "subscription not
\* registered" fault, in any interleaving of the caller and the read loop.
C11_NackFindsMailbox ==
    [][(IsNack(sock) /\ Requested(sock.subscription) /\ sock' = NoMsg)
        => panicked' # "BUG: subscription not registered"]_vars

\* C12: the frames that carry an id reach the wire in strictly increasing id
\* order, also when several callers allocate and send concurrently.
C12_WireIdsIncreasing ==
    [][(wire' # wire /\ wire.id # "" /\ wire'.id # "")
        => Atoi(wire.id) < Atoi(wire'.id)]_vars

\* A call p is blocked on the connection: in its consume loop, or waiting for
\* the stop signal to be accepted.
Blocked(p) == pc[p] \in {"SubscribeRecv", "DisconnectStop"}

\* C13: once the socket read has failed, every call blocked on the connection
\* at that moment eventually returns with an error (unless the program has
\* stopped on a panic).
C13_ReadFailureUnblocksCalls ==
    \A p \in Callers :
        (conn = "broken" /\ Blocked(p))
            ~> ((pc[p] = "idle" /\ ret[p].err # NoErr) \/ panicked # "")

\* Mailbox mb has a consumer: a Subscribe call in its consume loop on it.
HasConsumer(mb) == \E p \in Callers : pc[p] = "SubscribeRecv" /\ local[p].mb = mb

\* C14: when a Subscribe call has returned the error of a frame taken from
\* its mailbox (and the read loop is done with that frame), the registry no
\* longer maps the channel to that mailbox, and the read loop never blocks
\* pushing a frame into an open mailbox that has no consumer.
C14_ErrorReturnDestroysSubscription ==
    /\ \A p \in Callers :
        (/\ ret[p].op = "Subscribe" /\ ret[p].val # 0 /\ ret[p].err # NoErr
         /\ \A w \in Workers : ~(rw[w].pc = "close" /\ rw[w].mb = ret[p].val))
            => Lookup(subs, mboxes[ret[p].val].channel) # ret[p].val
    /\ \A w \in Workers :
        (rw[w].pc = "push" /\ ~mboxes[rw[w].mb].closed) => HasConsumer(rw[w].mb)

\* C15: every frame the read loop routes to a mailbox has been through each
\* inbound extension exactly once, in registration order, and so has the
\* handshake response that Handshake reads itself.
C15_InExtensionsOnEveryFrame ==
    /\ \A w \in Workers : rw[w].pc = "push" => rw[w].msg.ext = InExt
    /\ \A p \in Callers :
        (ret[p].op = "Handshake" /\ ret[p].val.resp # NoMsg)
            => ret[p].val.resp.ext = InExt

\* C16: while a read worker stays blocked pushing a frame into a mailbox, the
\* connection dispatches nothing else: no handler of another mailbox is
\* invoked, no publish-response callback is invoked, no advice is stored and
\* the stop signal is not accepted.
C16_BlockedPushStallsDispatch ==
    [][(\E w \in Workers : rw[w].pc = "push" /\ rw'[w] = rw[w]) =>
        /\ \A mb \in DOMAIN handled :
            (\A w \in Workers : ~(rw[w].pc = "push" /\ rw[w].mb = mb))
                => handled'[mb] = handled[mb]
        /\ \A w \in Workers : rw[w].pc = "read" => rw'[w].pc # "push"
        /\ pubCalls' = pubCalls
        /\ advice' = advice
        /\ \A w \in Workers : rw[w].pc = "select" => rw'[w].pc # "done"]_vars

HasCallback(ch) ==
    /\ onPublishResponse # NilMap
    /\ ch \in DOMAIN onPublishResponse

C19_SingleReadWorker ==
    Cardinality({w \in Workers : rw[w].pc \notin {"off", "done"}}) <= 1

\* C20: a read worker is never about to push a frame into a mailbox that has
\* been closed, and never about to close a mailbox that is closed already.
C20_NoUseOfClosedMailbox ==
    \A w \in Workers :
        rw[w].pc \in {"push", "close"} => ~mboxes[rw[w].mb].closed
====
